---- MODULE Spec2Model ----
(***************************************************************************)
(* Model of empower/agent/lvnf.py: the LVNF lifecycle supervisor.          *)
(*                                                                         *)
(* One LVNF object (lvnf_id LvnfId) on one agent.  start() and stop() are  *)
(* called from the agent's context; every start() spawns a child process   *)
(* and an init_lvnf thread, and a successful probe starts a heartbeat      *)
(* thread.  Processes and threads are numbered by the start() that made    *)
(* them: process p, init thread p and the Thread object p created by init  *)
(* thread p.                                                               *)
(***************************************************************************)
EXTENDS Integers, Sequences, FiniteSets, TLC

VARIABLES
    listen,     \* agent.listen
    vnf_seq,    \* self.vnf_seq
    nb_ports,   \* self.image.nb_ports
    ctrl,       \* self.ctrl
    ports,      \* self.ports: virtual_port_id -> port record
    context,    \* self.context: stateful handler -> list of lines
    process,    \* self.process: 0 is None, else the process number
    thread,     \* self.thread: 0 is None, else the Thread object number
    lvnfs,      \* agent.lvnfs: the set of registered lvnf ids
    pstate,     \* per child process: "unborn", "alive", "exited"
    signal,     \* per Thread object: whether the attribute signal is set
    ipc,        \* per init_lvnf thread: position
    iproc,      \* per init_lvnf thread: the process its communicate() waits on
    ictx,       \* per init_lvnf thread: the context argument
    wlog,       \* per init_lvnf thread: the write calls issued by __set_context
    hpc,        \* per heartbeat thread: position
    hobs,       \* per heartbeat thread: the process whose exit its poll observed
    missed,     \* per heartbeat thread: sleeps completed since self.process exited
    iseen,      \* per init_lvnf thread: how its communicate(timeout=1) ended
    icaps,      \* per init_lvnf thread: send_caps calls reporting a termination
    hcaps,      \* per heartbeat thread: send_caps calls reporting a termination
    upcaps,     \* per init_lvnf thread: send_caps calls reporting a successful start
    targets,    \* control ports that read/write requests were sent to
    sreads,     \* the channel's answers to the reads of the last stop()
    starts,     \* number of start() calls
    wval,       \* write_handler call under test: the value argument
    wresp,      \* write_handler call under test: the channel's answers, in order
    wout,       \* write_handler call under test: its outcome
    rval,       \* read_handler call under test: the channel's answer
    rout,       \* read_handler call under test: its outcome
    sout,       \* the last stats() call: its outcome and the port table it read
    slog,       \* the last stop(): its operations in order, the removals logged as failed
    wfail,      \* per init_lvnf thread: the first replayed write not answered 200 (0: none)
    ilog,       \* per init_lvnf thread: the steps of lines 134-145 it has performed
    afound      \* per init_lvnf thread: the ports its completed add_ifaces found in agent.ports

vars == <<listen, vnf_seq, nb_ports, ctrl, ports, context, process, thread,
          lvnfs, pstate, signal, ipc, iproc, ictx, wlog, hpc, hobs, missed,
          iseen, icaps, hcaps, upcaps, targets, sreads, starts, wval, wresp,
          wout, rval, rout, sout, slog, wfail, ilog, afound>>

(***************************************************************************)
(* Bounds and input sets                                                   *)
(***************************************************************************)
MaxStarts == 2          \* start() calls in one behaviour
MaxPorts == 2           \* largest image.nb_ports
MaxSeq == 2             \* largest vnf_seq
MaxLen == 3             \* longest list given to write_handler
MaxMissed == 3          \* cap of the missed-sleep counter

Procs == 1..MaxStarts
LvnfId == "lvnf"
Bridge == "br0"
Listen == 7000          \* agent.listen
OK == 200                       \* the status read_handler/write_handler test for
Statuses == {OK, 500}
Msgs == {"m1", "m2"}            \* messages of the control channel's answers
Answers == Statuses \X Msgs

\* image.state_handlers in iteration order, and image.handlers
StateHandlers == <<"h1", "h2">>
HandlerSet == {StateHandlers[k] : k \in 1..Len(StateHandlers)}
ImageHandlers == [h \in HandlerSet |-> <<"path", h>>]

NoneId == -1            \* None for an integer field
NoneAddr == <<"None">>  \* None for a hardware address
EmptyMap == <<>>        \* the empty dict {}

(***************************************************************************)
(* __init__: control port, interface names, port table                     *)
(***************************************************************************)
\* the control port without the sequence number
CtrlPortNoSeq(base, seq) == base

\* line 56: self.ctrl = agent.listen + self.vnf_seq
CtrlPort(base, seq) == base + seq

\* line 67: "vnf-%s-%u-%u" % (self.bridge, seq, i), kept as its fields
IfaceName(bridge, seq, i) == <<"vnf", bridge, seq, i>>

\* lines 64-72: one record per port index
InitPorts(n, bridge, seq) ==
    [i \in 0..(n - 1) |-> [iface |-> IfaceName(bridge, seq, i),
                           hwaddr |-> NoneAddr,
                           virtual_port_id |-> i,
                           ovs_port_id |-> NoneId]]

(***************************************************************************)
(* read_handler: a body is a sequence of characters; "nl" is the newline   *)
(* and "sp" a blank.                                                       *)
(***************************************************************************)
IsSpace(c) == c \in {"sp", "nl"}

\* str.split("\n")
RECURSIVE SplitNl(_)
SplitNl(s) ==
    IF \A k \in 1..Len(s) : s[k] # "nl"
    THEN <<s>>
    ELSE LET k == CHOOSE j \in 1..Len(s) :
                      s[j] = "nl" /\ \A m \in 1..(j - 1) : s[m] # "nl"
         IN  <<SubSeq(s, 1, k - 1)>> \o SplitNl(SubSeq(s, k + 1, Len(s)))

\* str.strip()
RECURSIVE Strip(_)
Strip(s) ==
    IF s = <<>> THEN s
    ELSE IF IsSpace(s[1]) THEN Strip(Tail(s))
    ELSE IF IsSpace(s[Len(s)]) THEN Strip(SubSeq(s, 1, Len(s) - 1))
    ELSE s

\* line 87: [x.strip() for x in value[1].split("\n") if x and x != ""]
BodyLines(body) ==
    LET kept == SelectSeq(SplitNl(body), LAMBDA x : x # <<>>)
    IN  [k \in 1..Len(kept) |-> Strip(kept[k])]

\* lines 84-90, value being the channel's answer (status, body or message)
ReadHandler(value) ==
    IF value[1] = OK THEN <<OK, BodyLines(value[2])>> ELSE <<value[1], value[2]>>

(***************************************************************************)
(* write_handler: value is a list (isList) of entries or one entry; resp   *)
(* holds the channel's answers to the requests, in the order sent.         *)
(***************************************************************************)
Unbound == <<0, "UnboundLocalError">>

\* lines 97-102: the loop over the entries, from entry k on; ret is the local
\* variable ret (Unbound before its first assignment)
RECURSIVE WriteLoop(_, _, _, _, _)
WriteLoop(items, resp, k, sent, ret) ==
    IF k > Len(items)
    THEN [sent |-> sent, raised |-> (ret = Unbound), ret |-> ret]
    ELSE IF resp[k][1] # OK
         THEN [sent |-> Append(sent, items[k]), raised |-> FALSE, ret |-> resp[k]]
         ELSE WriteLoop(items, resp, k + 1, Append(sent, items[k]), resp[k])

\* write_handler without the early return of line 100
WriteHandlerNoStop(value, resp) ==
    IF value.isList
    THEN [sent |-> value.items, raised |-> (Len(value.items) = 0),
          ret |-> IF Len(value.items) = 0 THEN Unbound ELSE resp[Len(value.items)]]
    ELSE [sent |-> <<value.item>>, raised |-> FALSE, ret |-> resp[1]]

\* lines 95-107
WriteHandler(value, resp) ==
    IF value.isList
    THEN WriteLoop(value.items, resp, 1, <<>>, Unbound)
    ELSE [sent |-> <<value.item>>, raised |-> FALSE, ret |-> resp[1]]

One(entry) == [isList |-> FALSE, item |-> entry]
Many(entries) == [isList |-> TRUE, items |-> entries]

(***************************************************************************)
(* Context: capture in stop(), replay in __set_context                     *)
(***************************************************************************)
\* lines 225-229: reads[h] is the channel's answer to the read of handler h
RECURSIVE SaveContext(_, _, _)
SaveContext(reads, k, ctx) ==
    IF k > Len(StateHandlers) THEN ctx
    ELSE LET h == StateHandlers[k]
             ret == ReadHandler(reads[h])
         IN  IF ret[1] = OK
             THEN SaveContext(reads, k + 1,
                              [x \in (DOMAIN ctx) \cup {h} |->
                                  IF x = h THEN ret[2] ELSE ctx[x]])
             ELSE SaveContext(reads, k + 1, ctx)

\* the (handler, line) pairs of a context in iteration order: handlers in
\* insertion order, the lines of each in list order
RECURSIVE CtxEntries(_, _)
CtxEntries(ctx, k) ==
    IF k > Len(StateHandlers) THEN <<>>
    ELSE LET h == StateHandlers[k]
         IN  (IF h \in DOMAIN ctx
              THEN [j \in 1..Len(ctx[h]) |-> <<h, ctx[h][j]>>]
              ELSE <<>>) \o CtxEntries(ctx, k + 1)

\* __set_context handing each handler's whole list to write_handler, which
\* stops at the first answer other than 200
SetContextWholeList(ctx, resp) ==
    IF ctx = EmptyMap THEN <<>>
    ELSE LET es == CtxEntries(ctx, 1)
             bad == {k \in 1..Len(es) : resp[k][1] # OK}
             last == IF bad = {} THEN Len(es)
                     ELSE CHOOSE k \in bad : \A j \in bad : k <= j
         IN  [k \in 1..last |-> <<ImageHandlers[es[k][1]], es[k][2]>>]

\* lines 109-117: the write calls issued, as (handler path, entry sent);
\* resp[k] is the channel's answer to the k-th call and is ignored
SetContext(ctx, resp) ==
    IF ctx = EmptyMap THEN <<>>
    ELSE LET es == CtxEntries(ctx, 1)
         IN  [k \in 1..Len(es) |->
                <<ImageHandlers[es[k][1]],
                  WriteHandler(One(es[k][2]), <<resp[k]>>).sent[1]>>]

(***************************************************************************)
(* Ports: add_ifaces and remove_ifaces                                     *)
(***************************************************************************)
\* get_hw_addr(iface)
HwAddr(iface) == <<"hw", iface>>

\* lines 247-251: first entry of agent.ports.values() with that iface
RECURSIVE OvsPortId(_, _, _)
OvsPortId(inv, iface, k) ==
    IF k > Len(inv) THEN NoneId
    ELSE IF inv[k].iface = iface THEN inv[k].port_id
    ELSE OvsPortId(inv, iface, k + 1)

\* the keys of a dict in iteration order (insertion order: the port indexes)
RECURSIVE Keys(_)
Keys(S) ==
    IF S = {} THEN <<>>
    ELSE LET m == CHOOSE i \in S : \A j \in S : i <= j
         IN  <<m>> \o Keys(S \ {m})

\* exec_cmd(...) either returns or raises OSError (the error line 274 handles)
CmdOutcomes == {"returned", "oserror"}

\* a port table all of whose records are resolved, whatever the inventory
AddIfacesAssumeFound(pt, keys, inv, cmds) ==
    [ports |-> [i \in DOMAIN pt |->
                   [pt[i] EXCEPT !.hwaddr = HwAddr(pt[i].iface),
                                 !.ovs_port_id = i + 1]],
     raised |-> FALSE]

\* lines 237-260, from the port keys[1] on; cmds[i] is how the bridge
\* commands for port i end.  An OSError is not caught: it ends add_ifaces
\* before lines 259-260 of that port.
RECURSIVE AddIfacesLoop(_, _, _, _)
AddIfacesLoop(pt, keys, inv, cmds) ==
    IF keys = <<>> THEN [ports |-> pt, raised |-> FALSE]
    ELSE LET i == Head(keys)
         IN  IF cmds[i] = "oserror" THEN [ports |-> pt, raised |-> TRUE]
             ELSE AddIfacesLoop(
                      [pt EXCEPT ![i].hwaddr = HwAddr(pt[i].iface),
                                 ![i].ovs_port_id = OvsPortId(inv, pt[i].iface, 1)],
                      Tail(keys), inv, cmds)

\* lines 234-260
AddIfaces(pt, inv, cmds) == AddIfacesLoop(pt, Keys(DOMAIN pt), inv, cmds)

\* remove_ifaces letting the OSError of a del-port end it
RECURSIVE RemoveIfacesPropagate(_, _, _, _, _)
RemoveIfacesPropagate(pt, keys, cmds, tried, failed) ==
    IF keys = <<>>
    THEN [ports |-> EmptyMap, tried |-> tried, failed |-> failed, raised |-> FALSE]
    ELSE LET i == Head(keys)
         IN  IF cmds[i] = "oserror"
             THEN [ports |-> pt, tried |-> Append(tried, pt[i].iface),
                   failed |-> failed, raised |-> TRUE]
             ELSE RemoveIfacesPropagate(pt, Tail(keys), cmds,
                                        Append(tried, pt[i].iface), failed)

\* lines 265-277, from the port keys[1] on: tried are the interfaces whose
\* del-port was issued, failed those logged as not removed (line 275); after
\* the loop self.ports = {}
RECURSIVE RemoveIfacesLoop(_, _, _, _, _)
RemoveIfacesLoop(pt, keys, cmds, tried, failed) ==
    IF keys = <<>>
    THEN [ports |-> EmptyMap, tried |-> tried, failed |-> failed, raised |-> FALSE]
    ELSE LET i == Head(keys)
         IN  RemoveIfacesLoop(pt, Tail(keys), cmds, Append(tried, pt[i].iface),
                              IF cmds[i] = "oserror"
                              THEN Append(failed, pt[i].iface) ELSE failed)

\* lines 262-277
RemoveIfaces(pt, cmds) == RemoveIfacesLoop(pt, Keys(DOMAIN pt), cmds, <<>>, <<>>)

(***************************************************************************)
(* stats: a counter file holds a sequence of decimal digits                *)
(***************************************************************************)
\* stats reading the packet counters only
FieldsPacketsOnly == <<"tx_packets", "rx_packets">>

\* line 290
Fields == <<"tx_packets", "rx_packets", "tx_bytes", "rx_bytes">>

\* int(f_stats.read())
RECURSIVE ParseInt(_)
ParseInt(digits) ==
    IF digits = <<>> THEN 0
    ELSE 10 * ParseInt(SubSeq(digits, 1, Len(digits) - 1)) + digits[Len(digits)]

\* lines 295-298: the counters of one interface, field by field
RECURSIVE StatsFields(_, _, _)
StatsFields(content, k, acc) ==
    IF k > Len(Fields) THEN acc
    ELSE StatsFields(content, k + 1,
                     [f \in (DOMAIN acc) \cup {Fields[k]} |->
                         IF f = Fields[k] THEN ParseInt(content) ELSE acc[f]])

\* lines 292-298: the loop over self.ports; open() raises for an interface
\* whose counter files are not in readable
RECURSIVE StatsLoop(_, _, _, _, _)
StatsLoop(pt, keys, readable, content, out) ==
    IF keys = <<>> THEN [raised |-> FALSE, out |-> out, ports |-> pt]
    ELSE LET iface == pt[Head(keys)].iface
         IN  IF iface \notin readable
             THEN [raised |-> TRUE,
                   out |-> [x \in (DOMAIN out) \cup {iface} |->
                               IF x = iface THEN EmptyMap ELSE out[x]],
                   ports |-> pt]
             ELSE StatsLoop(pt, Tail(keys), readable, content,
                            [x \in (DOMAIN out) \cup {iface} |->
                                IF x = iface THEN StatsFields(content, 1, EmptyMap)
                                ELSE out[x]])

\* lines 279-300
Stats(pt, readable, content) ==
    StatsLoop(pt, Keys(DOMAIN pt), readable, content, EmptyMap)

(***************************************************************************)
(* Inputs drawn by the actions                                             *)
(***************************************************************************)
\* the channel's answers to the read of a stateful handler: its current
\* value as a body, or a failure
Bodies == [h \in HandlerSet |->
              IF h = StateHandlers[1] THEN <<"x", "nl", "y">> ELSE <<"y", "nl">>]
ReadAnswers == [h \in HandlerSet |-> {<<OK, Bodies[h]>>, <<500, "m1">>}]
StopReads == {r \in [HandlerSet -> UNION {ReadAnswers[h] : h \in HandlerSet}] :
                 \A h \in HandlerSet : r[h] \in ReadAnswers[h]}

\* agent.ports.values(): the entries of the ports in S, in index order
RECURSIVE Inventory(_, _)
Inventory(pt, S) ==
    IF S = {} THEN <<>>
    ELSE LET m == CHOOSE i \in S : \A j \in S : i <= j
         IN  <<[iface |-> pt[m].iface, port_id |-> m + 1]>> \o Inventory(pt, S \ {m})

NoReads == [h \in HandlerSet |-> <<0, "none">>]
NoAnswer == <<0, "none">>
NoStop == [steps |-> <<>>, failed |-> <<>>, raised |-> FALSE]
NoStats == [raised |-> FALSE, out |-> EmptyMap, ports |-> <<"none">>]
NoCall == [isList |-> FALSE, item |-> "none"]
Pending == [sent |-> <<>>, raised |-> FALSE, ret |-> <<0, "pending">>]

(***************************************************************************)
(* Initial state: the object as __init__ leaves it, not yet started        *)
(***************************************************************************)
InitLvnf ==
    /\ listen = Listen
    /\ vnf_seq \in 1..MaxSeq
    /\ nb_ports \in 1..MaxPorts
    /\ ctrl = CtrlPort(listen, vnf_seq)
    /\ ports = InitPorts(nb_ports, Bridge, vnf_seq)
    /\ context = EmptyMap
    /\ process = 0
    /\ thread = 0
    /\ lvnfs = {}
    /\ pstate = [p \in Procs |-> "unborn"]
    /\ signal = [p \in Procs |-> FALSE]
    /\ ipc = [p \in Procs |-> "idle"]
    /\ iproc = [p \in Procs |-> 0]
    /\ ictx = [p \in Procs |-> EmptyMap]
    /\ wlog = [p \in Procs |-> <<>>]
    /\ hpc = [p \in Procs |-> "off"]
    /\ hobs = [p \in Procs |-> 0]
    /\ missed = [p \in Procs |-> 0]
    /\ iseen = [p \in Procs |-> "none"]
    /\ icaps = [p \in Procs |-> 0]
    /\ hcaps = [p \in Procs |-> 0]
    /\ upcaps = [p \in Procs |-> 0]
    /\ targets = {}
    /\ sreads = NoReads
    /\ starts = 0
    /\ slog = NoStop
    /\ wfail = [p \in Procs |-> 0]
    /\ ilog = [p \in Procs |-> <<>>]
    /\ afound = [p \in Procs |-> {}]

Init ==
    /\ InitLvnf
    /\ wval = NoCall
    /\ wresp = <<>>
    /\ wout = Pending
    /\ rval = NoAnswer
    /\ rout = NoAnswer
    /\ sout = NoStats

config == <<listen, vnf_seq, nb_ports, ctrl>>
lvars == <<ports, context, process, thread, lvnfs, pstate, signal, ipc, iproc,
           ictx, wlog, hpc, hobs, missed, iseen, icaps, hcaps, upcaps, sreads,
           starts, slog, wfail, ilog, afound>>
\* the method calls under test: arguments and results
wvars == <<wval, wresp, wout, rval, rout, sout>>

(***************************************************************************)
(* start() and stop(), called from the agent's context                     *)
(***************************************************************************)
\* lines 195-214; c is the context argument
Start(c) ==
    /\ \E p \in Procs :
        /\ pstate[p] = "unborn"
        /\ \A q \in Procs : q < p => pstate[q] # "unborn"
        /\ lvnfs' = lvnfs \cup {LvnfId}
        /\ process' = p
        /\ pstate' = [pstate EXCEPT ![p] = "alive"]
        /\ ictx' = [ictx EXCEPT ![p] = c]
        /\ ipc' = [ipc EXCEPT ![p] = "begin"]
    /\ missed' = [p \in Procs |-> 0]
    /\ starts' = starts + 1
    /\ UNCHANGED <<config, ports, context, thread, signal, iproc, wlog, hpc,
                   hobs, iseen, icaps, hcaps, upcaps, targets, sreads, wvars, slog, wfail, ilog, afound>>

\* stop() keeping the entries of the context saved before
StopContextKeep(old, reads) == SaveContext(reads, 1, old)

\* lines 225-229: self.context = {}, then one read per stateful handler
StopContext(old, reads) == SaveContext(reads, 1, EmptyMap)

\* the del-port commands of remove_ifaces, in the order issued
DelSteps(tried) == [k \in 1..Len(tried) |-> <<"del-port", tried[k]>>]

\* the reads of lines 226-227, in the order issued
ReadSteps == [k \in 1..Len(StateHandlers) |-> <<"read", ImageHandlers[StateHandlers[k]]>>]

\* lines 222-232: what stop() does to the bridge, the channel and process p
StopSteps(tried, p) == DelSteps(tried) \o ReadSteps \o <<<<"kill", p>>>>

\* how the del-port commands of one stop() end: all return, or the first
\* port's raises OSError
StopCmds(pt) == {[i \in DOMAIN pt |-> "returned"],
                 [i \in DOMAIN pt |-> IF i = 0 THEN "oserror" ELSE "returned"]}

\* lines 216-232; reads[h] is the channel's answer to the read of handler h,
\* cmds[i] how the del-port of port i ends.  The agent reaches the object
\* through agent.lvnfs, after a start().  An exception leaving remove_ifaces
\* would end stop() at line 222.
Stop(reads, cmds) ==
    /\ process # 0
    /\ LvnfId \in lvnfs
    /\ LET r == RemoveIfaces(ports, cmds)
       IN  /\ ports' = r.ports
           /\ IF r.raised
              THEN /\ slog' = [steps |-> DelSteps(r.tried), failed |-> r.failed,
                               raised |-> TRUE]
                   /\ UNCHANGED <<context, sreads, targets, pstate>>
              ELSE /\ slog' = [steps |-> StopSteps(r.tried, process),
                               failed |-> r.failed, raised |-> FALSE]
                   /\ context' = StopContext(context, reads)
                   /\ sreads' = reads
                   /\ targets' = targets \cup {ctrl}
                   /\ pstate' = [pstate EXCEPT ![process] = "exited"]
    /\ UNCHANGED <<config, process, thread, lvnfs, signal, ipc, iproc, ictx,
                   wlog, hpc, hobs, missed, iseen, icaps, hcaps, upcaps,
                   starts, wvars, wfail, ilog, afound>>

\* the child process p exits by itself
Exit(p) ==
    /\ pstate[p] = "alive"
    /\ pstate' = [pstate EXCEPT ![p] = "exited"]
    /\ UNCHANGED <<config, ports, context, process, thread, lvnfs, signal,
                   ipc, iproc, ictx, wlog, hpc, hobs, missed, iseen, icaps,
                   hcaps, upcaps, targets, sreads, starts, wvars, slog, wfail, ilog, afound>>

(***************************************************************************)
(* init_lvnf, the thread started by the p-th start()                       *)
(***************************************************************************)
\* line 126: self.process is read and communicate(timeout=1) entered
InitBegin(p) ==
    /\ ipc[p] = "begin"
    /\ iproc' = [iproc EXCEPT ![p] = process]
    /\ ipc' = [ipc EXCEPT ![p] = "probe"]
    /\ UNCHANGED <<config, ports, context, process, thread, lvnfs, pstate,
                   signal, ictx, wlog, hpc, hobs, missed, iseen, icaps,
                   hcaps, upcaps, targets, sreads, starts, wvars, slog, wfail, ilog, afound>>

\* outcomes of communicate(timeout=...) on a process in state st: it raises
\* TimeoutExpired while the process is alive, and may do so after its exit
\* while its output pipes are still held open
CommunicateOutcomes(st) ==
    IF st = "alive" THEN {"timeout"} ELSE {"returned", "timeout"}

\* init_lvnf taking the started path whatever communicate did
AfterProbeAlwaysUp(o) == "ctx"

\* where init_lvnf goes after communicate(timeout=1): on when it returned,
\* into the except clause of line 128 when it raised TimeoutExpired
AfterProbe(o) == IF o = "returned" THEN "fcaps" ELSE "ctx"

\* lines 126-128
InitProbe(p) ==
    /\ ipc[p] = "probe"
    /\ \E o \in CommunicateOutcomes(pstate[iproc[p]]) :
          /\ iseen' = [iseen EXCEPT ![p] = o]
          /\ ipc' = [ipc EXCEPT ![p] = AfterProbe(o)]
    /\ UNCHANGED <<config, ports, context, process, thread, lvnfs, pstate,
                   signal, iproc, ictx, wlog, hpc, hobs, missed, icaps,
                   hcaps, upcaps, targets, sreads, starts, wvars, slog, wfail, ilog, afound>>

\* init_lvnf starting the heartbeat before it reports
StartedStepsHeartbeatFirst == <<"ctx", "ifaces", "thr", "hbstart", "caps", "done">>

\* lines 134-147: the positions of the started path, in order
StartedSteps == <<"ctx", "ifaces", "caps", "thr", "hbstart", "done">>

\* the position after pc on the started path
NextStep(pc) ==
    LET k == CHOOSE j \in 1..(Len(StartedSteps) - 1) : StartedSteps[j] = pc
    IN  StartedSteps[k + 1]

\* the first answer other than 200 among resp (0 when there is none)
FirstBad(resp) ==
    IF \A k \in 1..Len(resp) : resp[k][1] = OK THEN 0
    ELSE CHOOSE k \in 1..Len(resp) :
            resp[k][1] # OK /\ \A j \in 1..(k - 1) : resp[j][1] = OK

\* init_lvnf giving up when a replayed write is not answered 200
AfterSetContextChecked(bad) == IF bad = 0 THEN NextStep("ctx") ELSE "wfailed"

\* line 134 returns nothing: init_lvnf goes on whatever the writes answered
AfterSetContext(bad) == NextStep("ctx")

\* line 134: __set_context(context)
InitSetContext(p) ==
    /\ ipc[p] = "ctx"
    /\ \E resp \in [1..Len(CtxEntries(ictx[p], 1)) -> Answers] :
          /\ wlog' = [wlog EXCEPT ![p] = SetContext(ictx[p], resp)]
          /\ wfail' = [wfail EXCEPT ![p] = FirstBad(resp)]
    /\ targets' = IF wlog'[p] = <<>> THEN targets ELSE targets \cup {ctrl}
    /\ ipc' = [ipc EXCEPT ![p] = AfterSetContext(wfail'[p])]
    /\ ilog' = [ilog EXCEPT ![p] = Append(@, "replay")]
    /\ UNCHANGED <<config, ports, context, process, thread, lvnfs, pstate,
                   signal, iproc, ictx, hpc, hobs, missed, iseen, icaps,
                   hcaps, upcaps, sreads, starts, wvars, slog, afound>>

\* how the bridge commands of one add_ifaces() end: all return, or those of
\* the last port raise OSError
AddCmds(pt) == {[i \in DOMAIN pt |-> "returned"],
                [i \in DOMAIN pt |->
                    IF \A j \in DOMAIN pt : j <= i THEN "oserror" ELSE "returned"]}

\* line 137: add_ifaces(); an OSError leaving it ends the thread
InitAddIfaces(p) ==
    /\ ipc[p] = "ifaces"
    /\ \E S \in {{}, DOMAIN ports}, cmds \in AddCmds(ports) :
          LET r == AddIfaces(ports, Inventory(ports, S), cmds)
          IN  /\ ports' = r.ports
              /\ ipc' = [ipc EXCEPT ![p] = IF r.raised THEN "oserror"
                                           ELSE NextStep("ifaces")]
              /\ ilog' = [ilog EXCEPT ![p] = IF r.raised THEN @
                                             ELSE Append(@, "attach")]
              /\ afound' = [afound EXCEPT ![p] = IF r.raised THEN @ ELSE S]
    /\ UNCHANGED <<config, context, process, thread, lvnfs, pstate, signal,
                   iproc, ictx, wlog, hpc, hobs, missed, iseen, icaps, hcaps,
                   upcaps, targets, sreads, starts, wvars, slog, wfail>>

\* line 140: send_caps after a successful probe
InitSendCaps(p) ==
    /\ ipc[p] = "caps"
    /\ upcaps' = [upcaps EXCEPT ![p] = @ + 1]
    /\ ipc' = [ipc EXCEPT ![p] = NextStep("caps")]
    /\ ilog' = [ilog EXCEPT ![p] = Append(@, "caps")]
    /\ UNCHANGED <<config, ports, context, process, thread, lvnfs, pstate,
                   signal, iproc, ictx, wlog, hpc, hobs, missed, iseen,
                   icaps, hcaps, targets, sreads, starts, wvars, slog, wfail, afound>>

\* line 143: self.thread = Thread(target=self.heartbeat)
InitNewThread(p) ==
    /\ ipc[p] = "thr"
    /\ thread' = p
    /\ ipc' = [ipc EXCEPT ![p] = NextStep("thr")]
    /\ ilog' = [ilog EXCEPT ![p] = Append(@, "thread")]
    /\ UNCHANGED <<config, ports, context, process, lvnfs, pstate, signal,
                   iproc, ictx, wlog, hpc, hobs, missed, iseen, icaps, hcaps,
                   upcaps, targets, sreads, starts, wvars, slog, wfail, afound>>

\* lines 144-145: self.thread.signal = True; self.thread.start().  Both read
\* self.thread; start() of a Thread that was started raises RuntimeError.
InitStartThread(p) ==
    /\ ipc[p] = "hbstart"
    /\ signal' = [signal EXCEPT ![thread] = TRUE]
    /\ IF hpc[thread] = "off"
       THEN /\ hpc' = [hpc EXCEPT ![thread] = "poll"]
            /\ ipc' = [ipc EXCEPT ![p] = NextStep("hbstart")]
            /\ ilog' = [ilog EXCEPT ![p] = Append(@, "start")]
       ELSE /\ hpc' = hpc
            /\ ipc' = [ipc EXCEPT ![p] = "raised"]
            /\ ilog' = ilog
    /\ UNCHANGED <<config, ports, context, process, thread, lvnfs, pstate,
                   iproc, ictx, wlog, hobs, missed, iseen, icaps, hcaps,
                   upcaps, targets, sreads, starts, wvars, slog, wfail, afound>>

\* line 155: send_caps after a failed probe
InitFailCaps(p) ==
    /\ ipc[p] = "fcaps"
    /\ icaps' = [icaps EXCEPT ![p] = @ + 1]
    /\ ipc' = [ipc EXCEPT ![p] = "fdel"]
    /\ UNCHANGED <<config, ports, context, process, thread, lvnfs, pstate,
                   signal, iproc, ictx, wlog, hpc, hobs, missed, iseen,
                   hcaps, upcaps, targets, sreads, starts, wvars, slog, wfail, ilog, afound>>

\* del self.agent.lvnfs[self.lvnf_id]: KeyError when the id is absent
DelLvnf(reg) == IF LvnfId \in reg THEN [reg |-> reg \ {LvnfId}, raised |-> FALSE]
                ELSE [reg |-> reg, raised |-> TRUE]

\* line 158
InitFailDel(p) ==
    /\ ipc[p] = "fdel"
    /\ lvnfs' = DelLvnf(lvnfs).reg
    /\ ipc' = [ipc EXCEPT ![p] = IF DelLvnf(lvnfs).raised THEN "keyerror" ELSE "failed"]
    /\ UNCHANGED <<config, ports, context, process, thread, pstate, signal,
                   iproc, ictx, wlog, hpc, hobs, missed, iseen, icaps, hcaps,
                   upcaps, targets, sreads, starts, wvars, slog, wfail, ilog, afound>>

(***************************************************************************)
(* heartbeat, the Thread object t                                          *)
(***************************************************************************)
\* lines 163-167: the loop test reads self.thread.signal (AttributeError when
\* that Thread has no signal yet), then self.process is polled
HbPoll(t) ==
    /\ hpc[t] = "poll"
    /\ IF ~signal[thread]
       THEN /\ hpc' = [hpc EXCEPT ![t] = "attrerror"]
            /\ hobs' = hobs
       ELSE IF pstate[process] = "exited"
       THEN /\ hpc' = [hpc EXCEPT ![t] = "drain1"]
            /\ hobs' = [hobs EXCEPT ![t] = process]
       ELSE /\ hpc' = [hpc EXCEPT ![t] = "sleep"]
            /\ hobs' = hobs
    /\ UNCHANGED <<config, ports, context, process, thread, lvnfs, pstate,
                   signal, ipc, iproc, ictx, wlog, missed, iseen, icaps,
                   hcaps, upcaps, targets, sreads, starts, wvars, slog, wfail, ilog, afound>>

\* lines 169-171: first drain of self.process
HbDrain(t) ==
    /\ hpc[t] = "drain1"
    /\ \E o \in CommunicateOutcomes(pstate[process]) :
          hpc' = [hpc EXCEPT ![t] = IF o = "returned" THEN "caps" ELSE "kill"]
    /\ UNCHANGED <<config, ports, context, process, thread, lvnfs, pstate,
                   signal, ipc, iproc, ictx, wlog, hobs, missed, iseen,
                   icaps, hcaps, upcaps, targets, sreads, starts, wvars, slog, wfail, ilog, afound>>

\* where the heartbeat goes after the second drain: a second TimeoutExpired
\* is not caught and ends the thread
AfterSecondDrain(o) == IF o = "returned" THEN "caps" ELSE "raised"

\* lines 172-173: self.process.kill(), then the second drain
HbKillDrain(t) ==
    /\ hpc[t] = "kill"
    /\ pstate' = [pstate EXCEPT ![process] = "exited"]
    /\ \E o \in CommunicateOutcomes("exited") :
          hpc' = [hpc EXCEPT ![t] = AfterSecondDrain(o)]
    /\ UNCHANGED <<config, ports, context, process, thread, lvnfs, signal,
                   ipc, iproc, ictx, wlog, hobs, missed, iseen, icaps, hcaps,
                   upcaps, targets, sreads, starts, wvars, slog, wfail, ilog, afound>>

\* line 182: send_caps for the exit the poll observed
HbSendCaps(t) ==
    /\ hpc[t] = "caps"
    /\ hcaps' = [hcaps EXCEPT ![t] = @ + 1]
    /\ hpc' = [hpc EXCEPT ![t] = "del"]
    /\ UNCHANGED <<config, ports, context, process, thread, lvnfs, pstate,
                   signal, ipc, iproc, ictx, wlog, hobs, missed, iseen,
                   icaps, upcaps, targets, sreads, starts, wvars, slog, wfail, ilog, afound>>

\* lines 185-189
HbDel(t) ==
    /\ hpc[t] = "del"
    /\ lvnfs' = DelLvnf(lvnfs).reg
    /\ hpc' = [hpc EXCEPT ![t] = IF DelLvnf(lvnfs).raised THEN "keyerror" ELSE "done"]
    /\ UNCHANGED <<config, ports, context, process, thread, pstate, signal,
                   ipc, iproc, ictx, wlog, hobs, missed, iseen, icaps, hcaps,
                   upcaps, targets, sreads, starts, wvars, slog, wfail, ilog, afound>>

\* a heartbeat that sleeps again instead of polling
AfterSleepNoPoll == "sleep"

\* where the heartbeat goes after time.sleep(2)
AfterSleep == "poll"

\* line 191: time.sleep(2); missed counts the sleeps completed while
\* self.process has exited and this thread has not observed it
HbSleep(t) ==
    /\ hpc[t] = "sleep"
    /\ hpc' = [hpc EXCEPT ![t] = AfterSleep]
    /\ missed' = [missed EXCEPT ![t] =
                     IF pstate[process] # "exited" THEN 0
                     ELSE IF @ < MaxMissed THEN @ + 1 ELSE @]
    /\ UNCHANGED <<config, ports, context, process, thread, lvnfs, pstate,
                   signal, ipc, iproc, ictx, wlog, hobs, iseen, icaps, hcaps,
                   upcaps, targets, sreads, starts, wvars, slog, wfail, ilog, afound>>

(***************************************************************************)
(* stats(), called from the agent's context                                *)
(***************************************************************************)
\* what a counter file holds
Contents == {<<0>>, <<4, 2>>}

\* the interface names of a port table
Ifaces(pt) == {pt[i].iface : i \in DOMAIN pt}

\* lines 279-300; readable are the interfaces whose counter files can be
\* opened, content is what the files hold
StatsCall(readable, content) ==
    /\ sout' = Stats(ports, readable, content)
    /\ UNCHANGED <<config, lvars, targets, wval, wresp, wout, rval, rout>>

(***************************************************************************)
(* Specification of the lifecycle                                          *)
(***************************************************************************)
Next ==
    \/ \E c \in {EmptyMap, context} : Start(c)
    \/ \E reads \in StopReads, cmds \in StopCmds(ports) : Stop(reads, cmds)
    \/ \E p \in Procs : Exit(p)
    \/ \E p \in Procs : InitBegin(p)
    \/ \E p \in Procs : InitProbe(p)
    \/ \E p \in Procs : InitSetContext(p)
    \/ \E p \in Procs : InitAddIfaces(p)
    \/ \E p \in Procs : InitSendCaps(p)
    \/ \E p \in Procs : InitNewThread(p)
    \/ \E p \in Procs : InitStartThread(p)
    \/ \E p \in Procs : InitFailCaps(p)
    \/ \E p \in Procs : InitFailDel(p)
    \/ \E t \in Procs : HbPoll(t)
    \/ \E t \in Procs : HbDrain(t)
    \/ \E t \in Procs : HbKillDrain(t)
    \/ \E t \in Procs : HbSendCaps(t)
    \/ \E t \in Procs : HbDel(t)
    \/ \E t \in Procs : HbSleep(t)

Spec == Init /\ [][Next]_vars

(***************************************************************************)
(* Specification of one write_handler call: the value and the channel's    *)
(* answers are drawn in the initial state, WriteCall applies the method    *)
(***************************************************************************)
Entries == {"a", "b"}
Lists == UNION {[1..n -> Entries] : n \in 0..MaxLen}
WriteValues == {One(e) : e \in Entries} \cup {Many(l) : l \in Lists}
Requests(value) == IF value.isList THEN Len(value.items) ELSE 1

InitWrite ==
    /\ InitLvnf
    /\ wval \in WriteValues
    /\ wresp \in UNION {[1..n -> Answers] : n \in 1..MaxLen}
    /\ Len(wresp) = IF Requests(wval) = 0 THEN 1 ELSE Requests(wval)
    /\ wout = Pending
    /\ rval = NoAnswer
    /\ rout = NoAnswer
    /\ sout = NoStats

\* lines 92-107: self.write_handler(handler, wval)
WriteCall ==
    /\ wout = Pending
    /\ wout' = WriteHandler(wval, wresp)
    /\ targets' = IF wout'.sent = <<>> THEN targets ELSE targets \cup {ctrl}
    /\ UNCHANGED <<config, lvars, wval, wresp, rval, rout, sout>>

NextWrite == WriteCall

SpecWrite == InitWrite /\ [][NextWrite]_vars

(***************************************************************************)
(* Specification of one read_handler call: the channel's answer is drawn   *)
(* in the initial state, ReadCall applies the method                       *)
(***************************************************************************)
MaxBody == 4            \* longest response body
Chars == {"x", "sp", "nl"}
ReadBodies == UNION {[1..n -> Chars] : n \in 0..MaxBody}
ReadValues == {<<OK, b>> : b \in ReadBodies} \cup {<<500, m>> : m \in Msgs}

InitRead ==
    /\ InitLvnf
    /\ wval = NoCall
    /\ wresp = <<>>
    /\ wout = Pending
    /\ rval \in ReadValues
    /\ rout = NoAnswer
    /\ sout = NoStats

\* lines 81-90: self.read_handler(handler), the channel answering rval
ReadCall ==
    /\ rout = NoAnswer
    /\ rout' = ReadHandler(rval)
    /\ targets' = targets \cup {ctrl}
    /\ UNCHANGED <<config, lvars, wval, wresp, wout, rval, sout>>

NextRead == ReadCall

SpecRead == InitRead /\ [][NextRead]_vars

(***************************************************************************)
(* Specification of the port table: add_ifaces(), remove_ifaces() and      *)
(* stats() called on the object in any order                               *)
(***************************************************************************)
\* lines 234-260: self.add_ifaces(), S being the ports agent.ports holds
AddIfacesCall(S, cmds) ==
    /\ ports' = AddIfaces(ports, Inventory(ports, S), cmds).ports
    /\ UNCHANGED <<config, context, process, thread, lvnfs, pstate, signal,
                   ipc, iproc, ictx, wlog, hpc, hobs, missed, iseen, icaps,
                   hcaps, upcaps, targets, sreads, starts, wvars, slog, wfail,
                   ilog, afound>>

\* lines 262-277: self.remove_ifaces()
RemoveIfacesCall(cmds) ==
    /\ ports' = RemoveIfaces(ports, cmds).ports
    /\ UNCHANGED <<config, context, process, thread, lvnfs, pstate, signal,
                   ipc, iproc, ictx, wlog, hpc, hobs, missed, iseen, icaps,
                   hcaps, upcaps, targets, sreads, starts, wvars, slog, wfail,
                   ilog, afound>>

NextPorts ==
    \/ \E S \in SUBSET DOMAIN ports, cmds \in [DOMAIN ports -> CmdOutcomes] :
          AddIfacesCall(S, cmds)
    \/ \E cmds \in [DOMAIN ports -> CmdOutcomes] : RemoveIfacesCall(cmds)
    \/ \E readable \in SUBSET Ifaces(ports), content \in Contents :
          StatsCall(readable, content)

SpecPorts == Init /\ [][NextPorts]_vars

\* the first entry whose write is answered with a status other than 200
\* (0 when every write is answered 200)
FirstFailure(items, resp) ==
    IF \A k \in 1..Len(items) : resp[k][1] = OK THEN 0
    ELSE CHOOSE k \in 1..Len(items) :
            resp[k][1] # OK /\ \A j \in 1..(k - 1) : resp[j][1] = OK

WriteDone == wval.isList /\ Len(wval.items) >= 1 /\ wout # Pending

\* C3: a write of a list of N >= 1 values sends them in order; when item k is
\* the first answered with a status other than 200, exactly items 1..k are
\* sent and the result is the answer to item k; when all are answered 200
\* all N are sent and the result is the answer to item N.
C3_WriteFailFast ==
    WriteDone =>
        LET k == FirstFailure(wval.items, wresp)
            n == Len(wval.items)
        IN  /\ ~wout.raised
            /\ k # 0 => wout.sent = SubSeq(wval.items, 1, k) /\ wout.ret = wresp[k]
            /\ k = 0 => wout.sent = wval.items /\ wout.ret = wresp[n]

\* a list of three values whose second write fails: the third is not sent
C3_Witness ==
    /\ WriteDone
    /\ Len(wval.items) = 3
    /\ FirstFailure(wval.items, wresp) = 2
    /\ Len(wout.sent) = 2
    /\ wout.ret[1] # OK

(***************************************************************************)
(* Derived notions used by the properties                                  *)
(***************************************************************************)
InitRunning(p) == ipc[p] \in {"begin", "probe", "ctx", "ifaces", "caps", "thr",
                              "hbstart", "fcaps", "fdel"}
HbActive(t) == hpc[t] \in {"poll", "drain1", "kill", "caps", "del", "sleep"}
HbEnded(t) == hpc[t] \in {"done", "raised", "attrerror", "keyerror"}
NoThreadRunning == \A p \in Procs : ~InitRunning(p) /\ ~HbActive(p)

\* send_caps calls that report the termination of process q
TermReports(q) ==
    Cardinality({p \in Procs : iproc[p] = q /\ icaps[p] = 1})
    + Cardinality({t \in Procs : hobs[t] = q /\ hcaps[t] = 1})

\* C1: the termination of a started process is reported by send_caps exactly
\* once and the instance leaves agent.lvnfs: no process has two reports, and
\* once no thread of the instance is left running, every process that has
\* exited has its one report and (being the current one) is deregistered.
C1_ReportedExactlyOnce ==
    \A q \in Procs :
        /\ TermReports(q) <= 1
        /\ (NoThreadRunning /\ pstate[q] = "exited") =>
              /\ TermReports(q) = 1
              /\ (process = q => LvnfId \notin lvnfs)

\* C2: a delete of an id that is already absent from agent.lvnfs is a no-op;
\* no thread is ended by the KeyError of such a delete.
C2_SecondDeleteIsNoop ==
    \A p \in Procs : ipc[p] # "keyerror" /\ hpc[p] # "keyerror"

\* the entries init_lvnf thread p wrote to the handler h, in the order written
WritesTo(p, h) ==
    LET ws == SelectSeq(wlog[p], LAMBDA w : w[1] = ImageHandlers[h])
    IN  [k \in 1..Len(ws) |-> ws[k][2]]

ReplayDone(p) == ipc[p] \in {"ifaces", "caps", "thr", "hbstart", "done", "raised",
                            "oserror"}
Spawned == {q \in Procs : pstate[q] # "unborn"}

\* C4: the lines stop() reads with status 200 from a stateful handler are
\* what context holds for it; an init_lvnf that passed the probe has written,
\* for every handler of the context it was given, exactly the lines of that
\* handler in order (and nothing for other handlers), and it has done so
\* before it reports the successful start.
C4_ContextRoundTrip ==
    /\ \A h \in HandlerSet :
          sreads[h][1] = OK =>
              h \in DOMAIN context /\ context[h] = ReadHandler(sreads[h])[2]
    /\ \A p \in Procs :
          /\ ReplayDone(p) =>
                \A h \in HandlerSet :
                    WritesTo(p, h) = IF h \in DOMAIN ictx[p] THEN ictx[p][h] ELSE <<>>
          /\ upcaps[p] >= 1 => ReplayDone(p)

\* a stop read two lines from the first stateful handler, and a later start
\* given that context has replayed them and reported
C4_Witness ==
    \E p \in Procs :
        LET h == StateHandlers[1] IN
        /\ sreads[h][1] = OK
        /\ ictx[p] = context
        /\ Len(context[h]) = 2
        /\ upcaps[p] = 1
        /\ WritesTo(p, h) = context[h]

FailedPath(p) == ipc[p] \in {"fcaps", "fdel", "failed", "keyerror"}

C6_HeartbeatReportsExit ==
    /\ \A t \in Procs : (hobs[t] # 0 /\ HbEnded(t)) => hcaps[t] = 1
    /\ Cardinality(Spawned) = starts

\* C7: a heartbeat that is polling and sleeping has completed at most one
\* sleep since the exit of self.process without having observed it.
C7_DetectedWithinOneInterval ==
    \A t \in Procs : hpc[t] \in {"poll", "sleep"} => missed[t] <= 1

\* the process exited during a sleep of the heartbeat, which is about to poll
C7_Witness ==
    \E t \in Procs :
        hpc[t] = "poll" /\ missed[t] = 1 /\ pstate[process] = "exited"

\* C8: at most one heartbeat loop is active for the instance.
C8_OneHeartbeat == Cardinality({t \in Procs : HbActive(t)}) <= 1

\* C9: the port table holds, for every port index of the image, a record
\* with the interface name vnf-<bridge>-<seq>-<i>.
C9_IfaceNamesStable ==
    \A i \in 0..(nb_ports - 1) :
        i \in DOMAIN ports /\ ports[i].iface = IfaceName(Bridge, vnf_seq, i)

\* C10: the control port is agent.listen + vnf_seq in every state, every
\* read and write request went to it, and an instance of the same agent
\* with another sequence number has another control port.
C10_ControlPort ==
    /\ ctrl = listen + vnf_seq
    /\ targets \subseteq {listen + vnf_seq}
    /\ \A s \in 0..MaxSeq : s # vnf_seq => CtrlPort(listen, s) # ctrl

\* the instance was started and stopped, and requests went to its port
C10_Witness ==
    /\ starts >= 1
    /\ sreads # NoReads
    /\ targets = {ctrl}
    /\ vnf_seq = MaxSeq

(***************************************************************************)
(* stats                                                                   *)
(***************************************************************************)
StatsReturned == sout # NoStats /\ ~sout.raised

C12_NoThrownFailure ==
    wout # Pending => ~wout.raised /\ wout.ret \in Answers

\* the lines of a body that are not blank, trimmed, in order
TrimmedLines(body) ==
    LET ls == SplitNl(body)
    IN  SelectSeq([k \in 1..Len(ls) |-> Strip(ls[k])], LAMBDA x : x # <<>>)

\* C13: for an answer with status 200 read_handler returns 200 and the lines
\* of the body in order, each trimmed and none empty, a blank line giving no
\* element; for any other status it returns the status and message as
\* received.
C13_ReadLines ==
    rout # NoAnswer =>
        IF rval[1] = OK
        THEN /\ rout[1] = OK
             /\ \A k \in 1..Len(rout[2]) : rout[2][k] # <<>>
             /\ rout[2] = TrimmedLines(rval[2])
        ELSE rout = rval

(***************************************************************************)
(* stop()                                                                  *)
(***************************************************************************)
Stopped == slog # NoStop
DelPorts == SelectSeq(slog.steps, LAMBDA st : st[1] = "del-port")
AllIfaces == [k \in 1..nb_ports |-> IfaceName(Bridge, vnf_seq, k - 1)]

\* C14: a stop() in which the del-port of a port failed has still issued the
\* del-port of every port, has cleared the port table, has read the stateful
\* handlers and killed the process it was called for, and no exception left
\* it.
C14_DetachFailureTolerated ==
    Stopped =>
        /\ ~slog.raised
        /\ ports = EmptyMap
        /\ sreads # NoReads
        /\ slog.steps[Len(slog.steps)][1] = "kill"
        /\ pstate[slog.steps[Len(slog.steps)][2]] = "exited"
        /\ slog.failed # <<>> =>
              [k \in 1..Len(DelPorts) |-> DelPorts[k][2]] = AllIfaces

\* the del-port of the first of two ports failed and stop() went on
C14_Witness ==
    /\ Stopped
    /\ nb_ports = 2
    /\ slog.failed = <<IfaceName(Bridge, vnf_seq, 0)>>
    /\ Len(DelPorts) = 2
    /\ ports = EmptyMap
    /\ pstate[process] = "exited"

\* C15: self.process is None before the first start(); at most one child
\* process of the instance is alive at a time; and self.process is set
\* whenever the instance is registered.
C15_OneChildProcess ==
    /\ starts = 0 => process = 0
    /\ Cardinality({q \in Procs : pstate[q] = "alive"}) <= 1
    /\ LvnfId \in lvnfs => process # 0

(***************************************************************************)
(* init_lvnf: the started path                                             *)
(***************************************************************************)
IsPrefix(a, b) == Len(a) <= Len(b) /\ a = SubSeq(b, 1, Len(a))
StartedOrder == <<"replay", "attach", "caps", "thread", "start">>

\* C16: an init_lvnf performs the steps of the started path in the order
\* replay of the context, attach of the ports, send_caps, creation and start
\* of the heartbeat, each at most once and only after its communicate timed
\* out; a heartbeat was never started before the send_caps of the init_lvnf
\* that created it, nor without a timed-out probe.
C16_StartupOrder ==
    /\ \A p \in Procs :
          /\ IsPrefix(ilog[p], StartedOrder)
          /\ ilog[p] # <<>> => iseen[p] = "timeout"
          /\ upcaps[p] = IF \E k \in 1..Len(ilog[p]) : ilog[p][k] = "caps" THEN 1 ELSE 0
    /\ \A t \in Procs :
          hpc[t] # "off" => /\ upcaps[t] = 1
                            /\ iseen[t] = "timeout"
                            /\ IsPrefix(SubSeq(StartedOrder, 1, 4), ilog[t])

\* an init_lvnf replayed a context, attached, reported and started its heartbeat
C16_Witness ==
    \E p \in Procs :
        /\ ilog[p] = StartedOrder
        /\ wlog[p] # <<>>
        /\ hpc[p] # "off"
        /\ upcaps[p] = 1

\* C17: a stop() has detached the ports first, then read each stateful
\* handler once in order, and killed the process last; afterwards context
\* holds exactly the stateful handlers whose read was answered 200, each with
\* the lines read, and nothing of an earlier context.
C17_StopOrderAndContext ==
    Stopped =>
        LET st == slog.steps
            n == Len(st)
        IN  /\ st[n][1] = "kill"
            /\ \A j \in 1..n : \A k \in 1..n :
                  (j < k) => ~(st[j][1] = "read" /\ st[k][1] = "del-port")
            /\ SelectSeq(st, LAMBDA x : x[1] = "read")
                  = [k \in 1..Len(StateHandlers) |->
                        <<"read", ImageHandlers[StateHandlers[k]]>>]
            /\ DOMAIN context = {h \in HandlerSet : sreads[h][1] = OK}
            /\ \A h \in DOMAIN context : context[h] = BodyLines(sreads[h][2])

\* a stop() whose read of the first stateful handler failed, after a start
\* that was given a context holding that handler
C17_Witness ==
    \E p \in Procs :
        LET h == StateHandlers[1] IN
        /\ Stopped
        /\ h \in DOMAIN ictx[p]
        /\ sreads[h][1] # OK
        /\ h \notin DOMAIN context
        /\ StateHandlers[2] \in DOMAIN context

(***************************************************************************)
(* Port records                                                            *)
(***************************************************************************)
Unresolved(rec) == rec.hwaddr = NoneAddr /\ rec.ovs_port_id = NoneId
AttachEnds(p) == ipc[p] = "ifaces" /\ ipc'[p] # "ifaces"

\* C18: while no add_ifaces has run, the hardware address and the bridge
\* port id of every port record are None; a step that changes either of
\* them in a record is an add_ifaces; and an add_ifaces none of whose bridge
\* commands raised leaves every port resolved against the inventory it
\* found: the id of a port it did not find is None, its hardware address is
\* set, and the ports found have their ids.
C18_ResolvedOnlyByAttach ==
    /\ []((\A p \in Procs : ipc[p] \in {"idle", "begin", "probe", "ctx", "ifaces",
                                        "fcaps", "fdel", "failed", "keyerror"})
            => \A i \in DOMAIN ports : Unresolved(ports[i]))
    /\ [][/\ \A i \in (DOMAIN ports) \cap (DOMAIN ports') :
                ports'[i] # ports[i] => \E p \in Procs : AttachEnds(p)
          /\ \A p \in Procs :
                (AttachEnds(p) /\ ipc'[p] # "oserror") =>
                    \A i \in DOMAIN ports :
                        /\ ports'[i].hwaddr = HwAddr(ports[i].iface)
                        /\ ports'[i].ovs_port_id =
                              IF i \in afound'[p] THEN i + 1 ELSE NoneId]_vars

\* an add_ifaces that found no port in the inventory has completed for both
\* ports of the instance
C18_Witness ==
    \E p \in Procs :
        /\ ipc[p] = "caps"
        /\ afound[p] = {}
        /\ nb_ports = 2
        /\ \A i \in DOMAIN ports :
              ports[i].ovs_port_id = NoneId /\ ports[i].hwaddr # NoneAddr
        /\ DOMAIN ports = 0..1

\* the write calls a replay of ctx issues: one per line, handler by handler
ReplayOf(ctx) ==
    LET es == CtxEntries(ctx, 1)
    IN  [k \in 1..Len(es) |-> <<ImageHandlers[es[k][1]], es[k][2]>>]

\* C19: an init_lvnf that has replayed its context has issued exactly one
\* write per line, for every handler and line in order, whatever the writes
\* were answered; and it has gone on to the attach of the ports: nothing but
\* the end of the started path, the error of a bridge command or of the
\* thread start ends it.
C19_ReplayNotFailFast ==
    \A p \in Procs :
        ilog[p] # <<>> =>
            /\ wlog[p] = ReplayOf(ictx[p])
            /\ ipc[p] \in {"ifaces", "caps", "thr", "hbstart", "done", "raised",
                           "oserror"}

\* the first replayed write was not answered 200, the later ones were
\* issued, and the init_lvnf attached, reported and started the heartbeat
C19_Witness ==
    \E p \in Procs :
        /\ wfail[p] = 1
        /\ Len(wlog[p]) >= 2
        /\ ilog[p] = StartedOrder
        /\ hpc[p] # "off"

\* C20: while the process self.process refers to is alive, the instance is
\* in agent.lvnfs.
C20_RegisteredWhileAlive ==
    (process # 0 /\ pstate[process] = "alive") => LvnfId \in lvnfs

====
